---- MODULE Spec2Model ----
(***************************************************************************)
(* The bulk ingestion pipeline of image_embeddings_pipeline:                *)
(* ImageEmbeddingPipeline.process_csv and process_single_image             *)
(* (src/image_embeddings_pipeline/src/pipeline.py), with the two stage     *)
(* calls (image_processor.py, embedding_generator.py) and the sink         *)
(* (qdrant_manager.py).                                                    *)
(*                                                                         *)
(* One asyncio event loop runs process_csv and one coroutine per row.      *)
(* Only one of them runs at a time; control changes hands only at an       *)
(* await.  The item coroutines are started by asyncio.as_completed and run *)
(* only while process_csv is suspended in "await coro" (pc = "wait").      *)
(*                                                                         *)
(* Assumed of the environment: the CSV file loads and                      *)
(* create_collection_if_not_exists returns.                                *)
(***************************************************************************)
EXTENDS Integers, Sequences, FiniteSets, TLC

\* Bounds of the model.
MaxRows == 3
MaxPool == 1
MaxBatch == 2
MaxProgressRows == 11

VARIABLES
    df_url,                 \* the manifest: df_url[i + 1] is TRUE iff row i holds a non-blank URL string
    start_from,             \* argument of process_csv
    max_images,             \* argument of process_csv: << >> is None, <<m>> is the integer m
    concurrent_downloads,   \* config.processing.concurrent_downloads
    concurrent_embeddings,  \* config.processing.concurrent_embeddings
    batch_size,             \* config.processing.batch_size
    pc,                     \* position of process_csv
    df,                     \* the filtered frame: the sequence of the original row labels
    total,                  \* len(df)
    success_count,
    failure_count,
    completed,
    download_sem,           \* download_sem._value
    embedding_sem,          \* embedding_sem._value
    tasks,                  \* the row labels an item coroutine was created for, in creation order
    st,                     \* st[idx]: position of the item coroutine of row idx
    result,                 \* result[idx]: << >> is None, <<id>> a PointStruct with that id
    done_queue,             \* finished coroutines not yet handed out by as_completed, oldest first
    points_buffer,          \* ids of the points in points_buffer, in order
    upserts,                \* history: every upsert_points call, [points, ok]
    calls,                  \* history: calls[idx] = [dl, em, payload, vector]: the stage calls
                            \* made for row idx and what each returned ("" while it has not)
    counted,                \* history: counted[idx] = [s, f], the increments row idx caused
    rerun,                  \* TRUE once process_csv has returned before on this pipeline object
    finish_order,           \* history: the rows in the order their coroutines ended
    shown                   \* history: the last progress line of this call, << >> if none

vars == << df_url, start_from, max_images, concurrent_downloads,
           concurrent_embeddings, batch_size, pc, df, total, success_count,
           failure_count, completed, download_sem, embedding_sem, tasks, st,
           result, done_queue, points_buffer, upserts, calls, counted, rerun,
           finish_order, shown >>

\* What no step of a run changes: its inputs, and whether it is the first.
inputs == << df_url, start_from, max_images, concurrent_downloads,
             concurrent_embeddings, batch_size, rerun >>

----------------------------------------------------------------------------
\* Helpers

Min(a, b) == IF a < b THEN a ELSE b

Range(s) == { s[j] : j \in 1..Len(s) }

RECURSIVE SumOver(_, _)
SumOver(f, S) ==
    IF S = {} THEN 0
    ELSE LET x == CHOOSE y \in S : TRUE IN f[x] + SumOver(f, S \ {x})

\* pd.read_csv: the row labels of a frame of T rows are 0 .. T-1.
ReadCsv(T) == [ j \in 1..T |-> j - 1 ]

\* df.iloc[k:] for k >= 0: drops the first k rows, keeps the labels.
Iloc(rows, k) == SubSeq(rows, Min(k, Len(rows)) + 1, Len(rows))

\* df.head(m) for m >= 0: the first m rows.
DfHead(rows, m) == SubSeq(rows, 1, Min(m, Len(rows)))

\* Python truthiness of an Optional[int]: None and 0 are false.
Truthy(opt) == opt # << >> /\ opt[1] # 0

\* Variant of ApplyFilters: the start_from slice forgotten.
ApplyFiltersUnsliced(rows, k, opt) ==
    IF Truthy(opt) THEN DfHead(rows, opt[1]) ELSE rows

\* pipeline.py:121-128, "Apply filters".
ApplyFilters(rows, k, opt) ==
    LET sliced == IF k > 0 THEN Iloc(rows, k) ELSE rows
    IN  IF Truthy(opt) THEN DfHead(sliced, opt[1]) ELSE sliced

\* pipeline.py:161: the row's URL is missing, not a string, or blank.
BadUrl(idx) == ~ df_url[idx + 1]

----------------------------------------------------------------------------
\* The stage calls and the sink, by what they return.

\* What the HTTP exchange and the image decoding of one download can do.
DownloadEvents == { "ok", "client_error", "timeout", "bad_image" }

\* What the HTTP exchange of one embedding request can do.
EmbeddingEvents == { "ok", "client_error", "timeout", "no_embedding" }

\* ImageProcessor.download_and_encode: the data URI, or None on any exception.
download_and_encode(ev) == IF ev = "ok" THEN "data_uri" ELSE "None"

\* EmbeddingGenerator.generate: the vector, or None on any exception and on a
\* response without data.
generate(ev) == IF ev = "ok" THEN "embedding" ELSE "None"

\* QdrantManager.upsert_points: True, or False when client.upsert raised.
upsert_points(client_ok) == client_ok

\* pipeline.py:69-71, "except Exception": the coroutine returns None.
ExceptHandler == "returned"

\* Variant of AfterStage: the "is None" tests forgotten.
AfterStageUnchecked(value, next) ==
    IF value = "raise" THEN "returned" ELSE next

\* pipeline.py:45-48 and 51-54: where the coroutine goes with a stage's value.
\* Neither stage call lets an Exception out (each catches it and returns
\* None), so "raise" is for a call that would.
AfterStage(value, next) ==
    IF value = "raise" THEN ExceptHandler
    ELSE IF value = "None" THEN "returned"
    ELSE next

\* Variant of PointId: the position in the filtered frame.
PointIdRebased(idx) == idx - start_from

\* pipeline.py:57-58: the point's id is the row label.
PointId(idx) == idx

\* Variant of DownloadSemInit: one slot too many.
DownloadSemInitOffByOne == concurrent_downloads + 1

\* pipeline.py:147 and 148: the semaphores' initial values.
DownloadSemInit == concurrent_downloads

EmbeddingSemInit == concurrent_embeddings

\* Variant of Locked: a semaphore that admits everyone.
LockedNever(value) == FALSE

\* asyncio.Semaphore.locked().
Locked(value) == value = 0

\* Variant of Suspended: the upload and the progress line awaited too.
SuspendedAnywhere(p) == p \in { "wait", "upload", "progress" }

\* pipeline.py:173, "result = await coro": the one place of the loop where
\* process_csv gives the event loop to the item coroutines.
Suspended(p) == p = "wait"

\* Variant of Schedules: a coroutine for every row.
SchedulesAll(idx) == TRUE

\* pipeline.py:159-168: a row gets a coroutine unless its URL is missing, not
\* a string or blank ("continue" at 163).
Schedules(idx) == ~ BadUrl(idx)

\* Variant of NextCompleted: the finished coroutine submitted first.
NextCompletedBySubmission(queue) ==
    CHOOSE idx \in Range(queue) : \A other \in Range(queue) : idx <= other

\* pipeline.py:172, asyncio.as_completed: the coroutine that finished first.
NextCompleted(queue) == Head(queue)

\* The finished coroutines still to be handed out, once idx has been.
Rest(queue, idx) == SelectSeq(queue, LAMBDA other : other # idx)

\* pipeline.py:188, "completed % 10".
ProgressEvery == 10

\* pipeline.py:188, "if completed % 10 == 0 or completed == total".
ShouldPrint(done, all) == done % ProgressEvery = 0 \/ done = all

\* pipeline.py:77-94: the line _print_progress writes for its two arguments.
\* The estimate stands for (elapsed / done) * (all - done), kept as its two
\* factors since elapsed is wall-clock time; the counts are read from self.
_print_progress(done, all) ==
    [ completed |-> done,
      total     |-> all,
      success   |-> success_count,
      failure   |-> failure_count,
      eta       |-> IF done > 0 THEN << "elapsed", done, all - done >>
                    ELSE << "calculating..." >> ]

\* Variant of ReadByPrint: the progress line clears what it shows.
ReadByPrintCleared(value) == 0

\* pipeline.py:92-94: _print_progress reads self.success_count and
\* self.failure_count into the line and assigns nothing.
ReadByPrint(value) == value

\* pipeline.py:176, "if result is None".
IsNone(res) == res = << >>

\* Variant of BatchFull: > for >=.
BatchFullStrict(buf) == Len(buf) > batch_size

\* pipeline.py:183, "len(points_buffer) >= batch_size".
BatchFull(buf) == Len(buf) >= batch_size

\* Variant of BadUrlCount: the skipped row is not counted.
BadUrlCountSkipped(idx) == 0

\* pipeline.py:161-163: what a row adds to failure_count while the coroutines
\* are created; a row with a bad URL is counted and gets no coroutine.
BadUrlCount(idx) == IF BadUrl(idx) THEN 1 ELSE 0

\* Variant of RecordFailure: a None result is not counted.
RecordFailureDropped(count) == count

\* pipeline.py:177, "self.failure_count += 1".
RecordFailure(count) == count + 1

\* Variant of RecordSuccess: a point is not counted when it is drained.
RecordSuccessDropped(count) == count

\* pipeline.py:180, "self.success_count += 1".
RecordSuccess(count) == count + 1

\* Variant of BufferAfterFailure: a None result empties the buffer.
BufferAfterFailureReset(buf) == << >>

\* pipeline.py:176-177: a None result leaves points_buffer alone.
BufferAfterFailure(buf) == buf

\* Variant of ResetCount: the statistics of the previous run are kept.
ResetCountKept(old) == old

\* pipeline.py:134-135: the statistics start at 0 in every call.
ResetCount(old) == 0

\* Variant of AfterDownloadBlock: the slot is not given back.
AfterDownloadBlockLeaked(value) == value

\* pipeline.py:45-48: leaving "async with download_sem" releases the slot,
\* on return and on exception alike.
AfterDownloadBlock(value) == value + 1

\* Variant of AfterEmbeddingBlock: the slot is not given back.
AfterEmbeddingBlockLeaked(value) == value

\* pipeline.py:51-54: leaving "async with embedding_sem" releases the slot.
AfterEmbeddingBlock(value) == value + 1

\* Variant of AfterUpload: the buffer is not reset.
AfterUploadKept(buf) == buf

\* pipeline.py:185, "points_buffer = []".
AfterUpload(buf) == << >>

\* Variant of RemainingToUpload: the buffer is uploaded even when empty.
RemainingToUploadAlways(buf) == TRUE

\* Variant of RemainingToUpload: the last partial batch is never uploaded.
RemainingToUploadNever(buf) == FALSE

\* pipeline.py:192, "if points_buffer".
RemainingToUpload(buf) == buf # << >>

----------------------------------------------------------------------------
\* State after ImageEmbeddingPipeline.__init__, and the inputs of one run.

Manifests == UNION { [ 1..T -> BOOLEAN ] : T \in 0..MaxRows }

\* pipeline.py:21-31: the pipeline object before its first process_csv call.
Constructed ==
    /\ pc = "call"
    /\ df = << >>
    /\ total = 0
    /\ success_count = 0
    /\ failure_count = 0
    /\ completed = 0
    /\ download_sem = 0
    /\ embedding_sem = 0
    /\ tasks = << >>
    /\ st = << >>
    /\ result = << >>
    /\ done_queue = << >>
    /\ points_buffer = << >>
    /\ upserts = << >>
    /\ calls = << >>
    /\ counted = << >>
    /\ rerun = FALSE
    /\ finish_order = << >>
    /\ shown = << >>

Init ==
    /\ df_url \in Manifests
    /\ start_from \in 0..(MaxRows + 1)
    /\ max_images \in { << >> } \cup { << m >> : m \in 0..(MaxRows - 1) }
    /\ concurrent_downloads \in 0..MaxPool
    /\ concurrent_embeddings \in 0..MaxPool
    /\ batch_size \in 1..MaxBatch
    /\ Constructed

----------------------------------------------------------------------------
\* process_csv

\* pipeline.py:113-171: load, filter, reset the statistics, create the
\* semaphores and one coroutine per row with a usable URL.  No await inside.
process_csv ==
    /\ pc = "call"
    /\ LET rows == ApplyFilters(ReadCsv(Len(df_url)), start_from, max_images)
           made == SelectSeq(rows, Schedules)
           skip == [ idx \in Range(rows) |-> BadUrlCount(idx) ]
       IN  /\ df' = rows
           /\ total' = Len(rows)
           /\ success_count' = ResetCount(success_count)
           /\ failure_count' = ResetCount(failure_count) + SumOver(skip, Range(rows))
           /\ download_sem' = DownloadSemInit
           /\ embedding_sem' = EmbeddingSemInit
           /\ tasks' = made
           /\ st' = [ idx \in Range(made) |-> "created" ]
           /\ result' = [ idx \in Range(made) |-> << >> ]
           /\ calls' = [ idx \in Range(rows) |->
                           [ dl |-> 0, em |-> 0, payload |-> "", vector |-> "" ] ]
           /\ counted' = [ idx \in Range(rows) |->
                             [ s |-> 0, f |-> skip[idx] ] ]
           /\ pc' = IF made = << >> THEN "remaining" ELSE "wait"
    /\ completed' = 0
    /\ points_buffer' = << >>
    /\ done_queue' = << >>
    /\ upserts' = << >>
    /\ finish_order' = << >>
    /\ shown' = << >>
    /\ UNCHANGED inputs

\* pipeline.py:172-180: as_completed hands out the oldest finished coroutine;
\* its result is counted and, if a point, appended.
DrainNext ==
    /\ pc = "wait"
    /\ done_queue # << >>
    /\ LET idx == NextCompleted(done_queue)
       IN  /\ done_queue' = Rest(done_queue, idx)
           /\ IF st[idx] = "raised"
              THEN /\ pc' = "raised"
                   /\ UNCHANGED << completed, success_count, failure_count,
                                   points_buffer, counted >>
              ELSE /\ completed' = completed + 1
                   /\ IF IsNone(result[idx])
                      THEN /\ failure_count' = RecordFailure(failure_count)
                           /\ counted' = [ counted EXCEPT ![idx].f =
                                             @ + failure_count' - failure_count ]
                           /\ points_buffer' = BufferAfterFailure(points_buffer)
                           /\ UNCHANGED success_count
                      ELSE /\ points_buffer' = Append(points_buffer, result[idx][1])
                           /\ success_count' = RecordSuccess(success_count)
                           /\ counted' = [ counted EXCEPT ![idx].s =
                                             @ + success_count' - success_count ]
                           /\ UNCHANGED failure_count
                   /\ pc' = "upload"
    /\ UNCHANGED << inputs, finish_order, shown,
                    df, total, download_sem, embedding_sem, tasks, st,
                    result, upserts, calls >>

\* pipeline.py:183-185, "Upload batch".
UploadBatch ==
    /\ pc = "upload"
    /\ IF BatchFull(points_buffer)
       THEN \E client_ok \in BOOLEAN :
               /\ upserts' = Append(upserts, [ points |-> points_buffer,
                                               ok |-> upsert_points(client_ok) ])
               /\ points_buffer' = AfterUpload(points_buffer)
       ELSE UNCHANGED << upserts, points_buffer >>
    /\ pc' = "progress"
    /\ UNCHANGED << inputs, finish_order, shown,
                    df, total, success_count, failure_count, completed,
                    download_sem, embedding_sem, tasks, st, result, done_queue,
                    calls, counted >>

\* pipeline.py:187-189, "Progress update", and the end of the for loop.
ProgressUpdate ==
    /\ pc = "progress"
    /\ shown' = IF ShouldPrint(completed, total)
                THEN _print_progress(completed, total)
                ELSE shown
    /\ success_count' = ReadByPrint(success_count)
    /\ failure_count' = ReadByPrint(failure_count)
    /\ pc' = IF completed = Len(tasks) THEN "remaining" ELSE "wait"
    /\ UNCHANGED << inputs, finish_order, df, total, completed,
                    download_sem, embedding_sem, tasks, st, result, done_queue,
                    points_buffer, upserts, calls, counted >>

\* pipeline.py:191-198, "Upload remaining", and the return.
UploadRemaining ==
    /\ pc = "remaining"
    /\ IF RemainingToUpload(points_buffer)
       THEN \E client_ok \in BOOLEAN :
               upserts' = Append(upserts, [ points |-> points_buffer,
                                            ok |-> upsert_points(client_ok) ])
       ELSE UNCHANGED upserts
    /\ pc' = "returned"
    /\ UNCHANGED << inputs, finish_order, shown,
                    df, total, success_count, failure_count, completed,
                    download_sem, embedding_sem, tasks, st, result, done_queue,
                    points_buffer, calls, counted >>

----------------------------------------------------------------------------
\* process_single_image, one coroutine per row idx

\* A coroutine that ends: its result is set and as_completed queues it.
Finish(idx, where, res) ==
    /\ st' = [ st EXCEPT ![idx] = where ]
    /\ result' = [ result EXCEPT ![idx] = res ]
    /\ done_queue' = Append(done_queue, idx)
    /\ finish_order' = Append(finish_order, idx)

\* pipeline.py:45-46: enter "async with download_sem", call download_and_encode.
AcquireDownload(idx) ==
    /\ Suspended(pc)
    /\ st[idx] = "created"
    /\ ~ Locked(download_sem)
    /\ download_sem' = download_sem - 1
    /\ st' = [ st EXCEPT ![idx] = "downloading" ]
    /\ calls' = [ calls EXCEPT ![idx].dl = @ + 1 ]
    /\ UNCHANGED << inputs, finish_order, shown,
                    pc, df, total, success_count, failure_count,
                    completed, embedding_sem, tasks, result, done_queue,
                    points_buffer, upserts, counted >>

\* pipeline.py:46-48: download_and_encode is back; the semaphore is released
\* on every way out of the block.
DownloadReturn(idx) ==
    /\ Suspended(pc)
    /\ st[idx] = "downloading"
    /\ download_sem' = AfterDownloadBlock(download_sem)
    /\ \E ev \in DownloadEvents :
          LET value == download_and_encode(ev)
              where == AfterStage(value, "downloaded")
          IN  /\ calls' = [ calls EXCEPT ![idx].payload = value ]
              /\ IF where = "downloaded"
                 THEN /\ st' = [ st EXCEPT ![idx] = "downloaded" ]
                      /\ UNCHANGED << result, done_queue, finish_order >>
                 ELSE Finish(idx, where, << >>)
    /\ UNCHANGED << inputs, shown, pc, df, total, success_count, failure_count,
                    completed, embedding_sem, tasks, points_buffer, upserts,
                    counted >>

\* pipeline.py:51-52: enter "async with embedding_sem", call generate.
AcquireEmbedding(idx) ==
    /\ Suspended(pc)
    /\ st[idx] = "downloaded"
    /\ ~ Locked(embedding_sem)
    /\ embedding_sem' = embedding_sem - 1
    /\ st' = [ st EXCEPT ![idx] = "embedding" ]
    /\ calls' = [ calls EXCEPT ![idx].em = @ + 1 ]
    /\ UNCHANGED << inputs, finish_order, shown,
                    pc, df, total, success_count, failure_count,
                    completed, download_sem, tasks, result, done_queue,
                    points_buffer, upserts, counted >>

\* pipeline.py:52-67: generate is back; on a vector the point is built and
\* returned.
EmbeddingReturn(idx) ==
    /\ Suspended(pc)
    /\ st[idx] = "embedding"
    /\ embedding_sem' = AfterEmbeddingBlock(embedding_sem)
    /\ \E ev \in EmbeddingEvents :
          LET value == generate(ev)
              where == AfterStage(value, "point")
          IN  /\ calls' = [ calls EXCEPT ![idx].vector = value ]
              /\ IF where = "point"
                 THEN Finish(idx, "returned", << PointId(idx) >>)
                 ELSE Finish(idx, where, << >>)
    /\ UNCHANGED << inputs, shown, pc, df, total, success_count, failure_count,
                    completed, download_sem, tasks, points_buffer, upserts,
                    counted >>

process_single_image(idx) ==
    \/ AcquireDownload(idx)
    \/ DownloadReturn(idx)
    \/ AcquireEmbedding(idx)
    \/ EmbeddingReturn(idx)

----------------------------------------------------------------------------

Next ==
    \/ process_csv
    \/ DrainNext
    \/ UploadBatch
    \/ ProgressUpdate
    \/ UploadRemaining
    \/ \E idx \in DOMAIN st : process_single_image(idx)

Spec == Init /\ [][Next]_vars

\* A fair event loop, and stage calls that come back: every step that stays
\* possible is taken.
Fairness ==
    /\ WF_vars(process_csv)
    /\ WF_vars(DrainNext)
    /\ WF_vars(UploadBatch)
    /\ WF_vars(ProgressUpdate)
    /\ WF_vars(UploadRemaining)
    /\ WF_vars(\E idx \in DOMAIN st : process_single_image(idx))

FairSpec == Spec /\ Fairness

----------------------------------------------------------------------------
\* An external interruption of the run (main.py:47-58)

\* Variant of UpsertsAfterInterrupt: a handler that uploads what is buffered.
UpsertsAfterInterruptFlushed(history, buf) ==
    IF buf = << >> THEN history
    ELSE Append(history, [ points |-> buf, ok |-> TRUE ])

\* pipeline.py:170-193: process_csv has no try/finally around the loop or the
\* final upload, so an exception passing through it uploads nothing.
UpsertsAfterInterrupt(history, buf) == history

\* Ctrl-C while the loop of pipeline.py:172-193 is active.  The interpreter
\* delivers it as a KeyboardInterrupt raised where process_csv is executing,
\* or as a cancellation raised at its "await coro"; neither is an Exception,
\* so upsert_points and process_single_image do not swallow it.  process_csv
\* is left at once and the item coroutines are cancelled with the loop: they
\* take no further step, which the model shows as st frozen.
Interrupt ==
    /\ pc \in { "wait", "upload", "progress", "remaining" }
    /\ pc' = "interrupted"
    /\ upserts' = UpsertsAfterInterrupt(upserts, points_buffer)
    /\ UNCHANGED << inputs, finish_order, shown,
                    df, total, success_count, failure_count, completed,
                    download_sem, embedding_sem, tasks, st, result, done_queue,
                    points_buffer, calls, counted >>

NextInterruptible ==
    \/ Next
    \/ Interrupt

InterruptSpec == Init /\ [][NextInterruptible]_vars

----------------------------------------------------------------------------
\* A second call of process_csv on the same pipeline object

\* The caller calls process_csv again with the same arguments once the first
\* call has returned: the object still carries success_count and
\* failure_count of the first run.
CallAgain ==
    /\ pc = "returned"
    /\ ~rerun
    /\ pc' = "call"
    /\ rerun' = TRUE
    /\ UNCHANGED << df_url, start_from, max_images, concurrent_downloads,
                    concurrent_embeddings, batch_size, df, total, success_count,
                    failure_count, completed, download_sem, embedding_sem, tasks,
                    st, result, done_queue, points_buffer, upserts, calls,
                    counted, finish_order, shown >>

NextRerun ==
    \/ Next
    \/ CallAgain

RerunSpec == Init /\ [][NextRerun]_vars

----------------------------------------------------------------------------
\* Runs long enough for the periodic progress line

\* A manifest of MaxProgressRows rows of which only the first may lack a
\* usable URL, processed whole with one slot per stage.
InitProgress ==
    /\ df_url \in { [ j \in 1..MaxProgressRows |-> j > 1 \/ first ] : first \in BOOLEAN }
    /\ start_from = 0
    /\ max_images = << >>
    /\ concurrent_downloads = MaxPool
    /\ concurrent_embeddings = MaxPool
    /\ batch_size = MaxProgressRows
    /\ Constructed

\* pipeline.py:33-71 from its first line to its return with no other
\* coroutine scheduled in between: the schedule in which the coroutines run
\* one after the other in the order they were created, each result taken by
\* the loop before the next coroutine starts.
RunItem(idx) ==
    /\ Suspended(pc)
    /\ done_queue = << >>
    /\ st[idx] = "created"
    /\ \A other \in DOMAIN st : st[other] = "created" => idx <= other
    /\ ~ Locked(download_sem)
    /\ \E dev \in DownloadEvents, eev \in EmbeddingEvents :
          LET payload == download_and_encode(dev)
              embeds  == AfterStage(payload, "downloaded") = "downloaded"
              vector  == IF embeds THEN generate(eev) ELSE ""
              where   == IF embeds THEN AfterStage(vector, "point") ELSE "returned"
          IN  /\ embeds => ~ Locked(embedding_sem)
              /\ calls' = [ calls EXCEPT ![idx] =
                              [ dl |-> @.dl + 1,
                                em |-> IF embeds THEN @.em + 1 ELSE @.em,
                                payload |-> payload,
                                vector |-> vector ] ]
              /\ IF where = "point"
                 THEN Finish(idx, "returned", << PointId(idx) >>)
                 ELSE Finish(idx, where, << >>)
    /\ UNCHANGED << inputs, shown, pc, df, total, success_count, failure_count,
                    completed, download_sem, embedding_sem, tasks,
                    points_buffer, upserts, counted >>

NextProgress ==
    \/ process_csv
    \/ \E idx \in DOMAIN st : RunItem(idx)
    \/ DrainNext
    \/ UploadBatch
    \/ ProgressUpdate
    \/ UploadRemaining

ProgressSpec == InitProgress /\ [][NextProgress]_vars

----------------------------------------------------------------------------
\* Vocabulary of the properties

\* The rows of the manifest.
T == Len(df_url)

\* The item coroutines.
Items == DOMAIN st

\* The coroutines inside "async with download_sem" / "async with embedding_sem".
DownloadHolders == { idx \in Items : st[idx] = "downloading" }

EmbeddingHolders == { idx \in Items : st[idx] = "embedding" }

\* The coroutines that returned a point, and those that returned None after
\* a failed download or a failed embedding request.
Succeeded == { idx \in Items : st[idx] = "returned" /\ result[idx] # << >> }

FailedDownload == { idx \in Items : st[idx] = "returned" /\ result[idx] = << >>
                                     /\ calls[idx].em = 0 }

FailedEmbedding == { idx \in Items : st[idx] = "returned" /\ result[idx] = << >>
                                      /\ calls[idx].em > 0 }

\* The coroutines whose result the loop has taken.
Drained == { idx \in Items : st[idx] = "returned" /\ idx \notin Range(done_queue) }

\* How often id occurs in the batch, and in all upsert_points calls so far.
Occurrences(batch, id) == Cardinality({ p \in 1..Len(batch) : batch[p] = id })

RECURSIVE UpsertedTimes(_, _)
UpsertedTimes(n, id) ==
    IF n = 0 THEN 0
    ELSE Occurrences(upserts[n].points, id) + UpsertedTimes(n - 1, id)

----------------------------------------------------------------------------
\* C1: when a run of process_csv over the N selected rows returns,
\* success_count + failure_count = N, whatever each row's URL, download and
\* embedding outcome was.
C1_CountsSumToTotal ==
    pc = "returned" =>
        /\ total = Len(df)
        /\ success_count + failure_count = total

\* C1 witness: a returned run of three rows, one with a bad URL, one that
\* failed in a stage and one that succeeded.
C1_Witness ==
    /\ pc = "returned"
    /\ total = 3
    /\ \E idx \in Range(df) : BadUrl(idx)
    /\ FailedDownload \cup FailedEmbedding # {}
    /\ Succeeded # {}

\* C2: at every moment at most concurrent_downloads coroutines are inside
\* download_sem and at most concurrent_embeddings inside embedding_sem.
C2_PoolBounds ==
    pc # "call" =>
        /\ Cardinality(DownloadHolders) <= concurrent_downloads
        /\ Cardinality(EmbeddingHolders) <= concurrent_embeddings

\* C2 witness: both pools are full, a coroutine waits for download_sem.
C2_Witness ==
    /\ pc = "wait"
    /\ concurrent_downloads >= 1
    /\ Cardinality(DownloadHolders) = concurrent_downloads
    /\ Cardinality(EmbeddingHolders) = concurrent_embeddings
    /\ concurrent_embeddings >= 1
    /\ \E idx \in Items : st[idx] = "created"

\* C3: a returned run with batch_size B >= 1 and S successes has called
\* upsert_points floor(S / B) times with B points and then once more with
\* S mod B points if that is not 0, and no other time.
C3_BatchFlushes ==
    (pc = "returned" /\ batch_size >= 1) =>
        LET S == Cardinality(Succeeded)
            full == S \div batch_size
            rest == S % batch_size
        IN  /\ Len(upserts) = full + (IF rest = 0 THEN 0 ELSE 1)
            /\ \A j \in 1..Len(upserts) :
                  Len(upserts[j].points) = IF j <= full THEN batch_size ELSE rest

\* C3 witness: three successes with batch_size 2, a full batch then one point.
C3_Witness ==
    /\ pc = "returned"
    /\ batch_size = 2
    /\ Cardinality(Succeeded) = 3
    /\ Len(upserts) = 2
    /\ Len(upserts[2].points) = 1

\* C4: with 0 <= start_from <= T the rows processed are those with original
\* index in [start_from, min(start_from + max_images, T)), or [start_from, T)
\* without max_images; every point carries its row's original index; and
\* success_count + failure_count is the size of that range at return.
ClaimedRows ==
    { i \in 0..(T - 1) :
        /\ i >= start_from
        /\ (max_images = << >> \/ i < start_from + max_images[1]) }

C4_ResumeSlicing ==
    (pc # "call" /\ start_from <= T) =>
        /\ Range(df) = ClaimedRows
        /\ \A idx \in Items : result[idx] # << >> => result[idx] = << idx >>
        /\ pc = "returned" =>
              success_count + failure_count = Cardinality(ClaimedRows)

\* The statement of C4 for every max_images other than 0 (checked beside it:
\* the code departs from C4 at max_images = 0 only).
SlicingUnlessCapIsZero ==
    (max_images # << 0 >>) => C4_ResumeSlicing

\* C5 as stated: with start_from > T the call ends in an error raised to the
\* caller.
C5_RangeErrorRaised ==
    (pc # "call" /\ start_from > T) => pc = "raised"

\* C5 as amended: with start_from > T the call raises nothing; it selects no
\* row, creates no coroutine, makes no stage call and no upsert_points call,
\* and returns (0, 0).
C5_StartBeyondEndIsEmptyRun ==
    (pc # "call" /\ start_from > T) =>
        /\ pc \in { "remaining", "returned" }
        /\ df = << >> /\ total = 0
        /\ tasks = << >> /\ Items = {}
        /\ DOMAIN calls = {}
        /\ upserts = << >>
        /\ success_count = 0 /\ failure_count = 0

\* C5 witness: a returned run over a manifest with a usable row and
\* start_from beyond its end.
C5_Witness ==
    /\ pc = "returned"
    /\ start_from > T
    /\ \E i \in 0..(T - 1) : ~ BadUrl(i)

\* C6: with stage calls that come back and a fair event loop, every run
\* returns.
C6_RunTerminates == <>(pc = "returned")

\* The statement of C6 for pools of at least one slot each (checked beside
\* it: the runs that never return are those with an empty pool).
TerminatesWithPositivePools ==
    (concurrent_downloads >= 1 /\ concurrent_embeddings >= 1)
        => <>(pc = "returned")

\* C7: no stage failure leaves process_csv as an exception; the failed item
\* is counted once in failure_count, and not in success_count.
C7_StageFailureCounted ==
    /\ pc # "raised"
    /\ \A idx \in Items : st[idx] # "raised"
    /\ \A idx \in Items :
          (st[idx] = "returned" /\ result[idx] = << >>) =>
              IF idx \in Range(done_queue)
              THEN counted[idx] = [ s |-> 0, f |-> 0 ]
              ELSE counted[idx] = [ s |-> 0, f |-> 1 ] /\ failure_count >= 1

\* C7 witness: a returned run in which one item failed its download and
\* another its embedding request.
C7_Witness ==
    /\ pc = "returned"
    /\ FailedDownload # {}
    /\ FailedEmbedding # {}
    /\ failure_count >= 2

\* C8: only successful items are ever passed to upsert_points, none twice,
\* and at return every successful item has been passed exactly once.
C8_UpsertedExactlySuccesses ==
    /\ \A j \in 1..Len(upserts) : Range(upserts[j].points) \subseteq Succeeded
    /\ \A idx \in Items : UpsertedTimes(Len(upserts), idx) <= 1
    /\ pc = "returned" =>
          \A idx \in Succeeded : UpsertedTimes(Len(upserts), idx) = 1

\* C8 witness: a returned run with a success, a failed download, a failed
\* embedding request and an upsert_points call.
C8_Witness ==
    /\ pc = "returned"
    /\ Succeeded # {}
    /\ FailedDownload # {}
    /\ FailedEmbedding # {}
    /\ upserts # << >>

\* C9: every point's id is the original index of its row, no two points
\* share an id, and every selected row causes at most one increment, of one
\* counter, and exactly one by the time the run returns.
C9_UniqueIdsCountedOnce ==
    /\ \A idx \in Items : result[idx] # << >> => result[idx] = << idx >>
    /\ Items \subseteq 0..(T - 1)
    /\ \A a, b \in Succeeded : result[a] = result[b] => a = b
    /\ \A idx \in DOMAIN counted : counted[idx].s + counted[idx].f <= 1
    /\ pc = "returned" =>
          \A idx \in DOMAIN counted : counted[idx].s + counted[idx].f = 1
    /\ pc # "call" =>
          /\ DOMAIN counted = Range(df)
          /\ success_count = Cardinality({ idx \in DOMAIN counted : counted[idx].s = 1 })
          /\ failure_count = Cardinality({ idx \in DOMAIN counted : counted[idx].f = 1 })

\* C9 witness: a returned run that started past row 0 and produced two
\* points.
C9_Witness ==
    /\ pc = "returned"
    /\ start_from >= 1
    /\ Cardinality(Succeeded) >= 2

\* C10: after an upsert_points call that returned False, no point of that
\* batch is passed to upsert_points again; the call changes neither counter,
\* the buffer is cleared, and the run goes on to the progress update (in the
\* loop) or to its return (after it).
FailedUpsertNow ==
    /\ Len(upserts') = Len(upserts) + 1
    /\ ~ upserts'[Len(upserts')].ok

C10_FailedUpsertNotRetried ==
    /\ [](\A j \in 1..Len(upserts) :
            ~ upserts[j].ok =>
                \A id \in Range(upserts[j].points) :
                    /\ UpsertedTimes(Len(upserts), id) = 1
                    /\ pc # "returned" => Occurrences(points_buffer, id) = 0)
    /\ [][FailedUpsertNow =>
            /\ success_count' = success_count
            /\ failure_count' = failure_count
            /\ pc = "upload" => (points_buffer' = << >> /\ pc' = "progress")
            /\ pc = "remaining" => pc' = "returned"]_vars

\* C10 witness: a returned run whose first upsert_points call returned False
\* and was followed by another call.
C10_Witness ==
    /\ pc = "returned"
    /\ Len(upserts) >= 2
    /\ ~ upserts[1].ok
    /\ success_count = 3

----------------------------------------------------------------------------
\* C11: with batch_size >= 1, every batch passed to upsert_points holds at
\* least 1 and at most batch_size points; an empty batch is never passed.
C11_BatchSizeWithinBounds ==
    batch_size >= 1 =>
        \A j \in 1..Len(upserts) :
            /\ Len(upserts[j].points) >= 1
            /\ Len(upserts[j].points) <= batch_size

\* C11 witness: a returned run that passed a full batch of batch_size = 2
\* points and then a last batch of one point.
C11_Witness ==
    /\ pc = "returned"
    /\ batch_size = 2
    /\ Len(upserts) = 2
    /\ Len(upserts[1].points) = 2
    /\ Len(upserts[2].points) = 1

----------------------------------------------------------------------------
\* C12: every call of process_csv starts both counters again: the step that
\* leaves the call site sets success_count to 0 and failure_count to the
\* number of rows without a usable URL, whatever the object carried, and a
\* call that returns reports the successes and failures of its own rows only,
\* also when it is the second call on the same pipeline object.
C12_CountsResetEachRun ==
    /\ [](pc = "returned" =>
            /\ success_count = Cardinality(Succeeded)
            /\ failure_count = total - Cardinality(Succeeded))
    /\ [][pc = "call" =>
            /\ success_count' = 0
            /\ failure_count' = total' - Len(tasks')]_vars

\* C12 witness: a second call on the same object has returned; it had three
\* rows (so the first call left counters that sum to 3), of which one
\* succeeded.
C12_Witness ==
    /\ rerun
    /\ pc = "returned"
    /\ total = 3
    /\ success_count = 1
    /\ failure_count = 2

----------------------------------------------------------------------------
\* C13: no coroutine's failure touches another row: every row whose own
\* download returned a data URI and whose own embedding request returned a
\* vector has returned its point, and once the loop has taken that result the
\* row is counted in success_count (and not in failure_count) and its point
\* is in the buffer or in a batch passed to upsert_points.
C13_OwnSuccessIsCounted ==
    LET waiting == Range(done_queue)
        buffered == Range(points_buffer)
    IN  \A idx \in Items :
            (calls[idx].payload = "data_uri" /\ calls[idx].vector = "embedding") =>
                /\ st[idx] = "returned"
                /\ result[idx] = << PointId(idx) >>
                /\ idx \notin waiting =>
                      /\ counted[idx] = [ s |-> 1, f |-> 0 ]
                      /\ \/ PointId(idx) \in buffered
                         \/ \E j \in 1..Len(upserts) :
                               PointId(idx) \in Range(upserts[j].points)

\* C13 witness: the loop holds the point of a row in its buffer after it has
\* also taken the None of a failed download and of a failed embedding request.
C13_Witness ==
    /\ pc = "remaining"
    /\ Len(points_buffer) = 1
    /\ upserts = << >>
    /\ \E idx \in FailedDownload : idx \in Drained
    /\ \E idx \in FailedEmbedding : idx \in Drained

----------------------------------------------------------------------------
\* The number of points in the first n upsert_points calls, and in those of
\* them that returned True.
RECURSIVE PassedToUpsert(_)
PassedToUpsert(n) ==
    IF n = 0 THEN 0 ELSE Len(upserts[n].points) + PassedToUpsert(n - 1)

RECURSIVE UpsertedOk(_)
UpsertedOk(n) ==
    IF n = 0 THEN 0
    ELSE (IF upserts[n].ok THEN Len(upserts[n].points) ELSE 0) + UpsertedOk(n - 1)

\* The step in which the interruption ends process_csv.
InterruptedNow == pc # "interrupted" /\ pc' = "interrupted"

\* C14: an interruption while the loop is active passes nothing to
\* upsert_points, neither as it ends process_csv nor afterwards, so the
\* points then in the buffer are in no batch; and the coroutines still in
\* flight stay where they were: none of them completes.
C14_InterruptUploadsNothing ==
    /\ [](pc = "interrupted" =>
            \A p \in 1..Len(points_buffer) :
                UpsertedTimes(Len(upserts), points_buffer[p]) = 0)
    /\ [][InterruptedNow =>
            /\ upserts' = upserts
            /\ st' = st
            /\ result' = result]_vars
    /\ [][pc # "interrupted"]_vars

\* C14 witness: the run was interrupted with a point in the buffer and a
\* coroutine inside a stage call.
C14_Witness ==
    /\ pc = "interrupted"
    /\ points_buffer # << >>
    /\ DownloadHolders \cup EmbeddingHolders # {}

----------------------------------------------------------------------------
\* C15 as stated: after an interruption success_count equals the number of
\* points in the batches passed to upsert_points before it; the points still
\* in the buffer are not in the count.
C15_InterruptedCountIsFlushed ==
    pc = "interrupted" => success_count = PassedToUpsert(Len(upserts))

\* C15 as the code has it: process_csv reports nothing when it is interrupted
\* (it never reaches its return), and the success_count it leaves on the
\* object counts every point taken by the loop: those passed to upsert_points
\* and those still in the buffer.
C15_InterruptedCountIncludesBuffer ==
    pc = "interrupted" =>
        /\ success_count = PassedToUpsert(Len(upserts)) + Len(points_buffer)
        /\ \A p \in 1..Len(points_buffer) :
              counted[points_buffer[p]].s = 1

\* C15 witness: interrupted after one batch was passed to upsert_points, with
\* a further point in the buffer: success_count is 2, one more than uploaded.
C15_Witness ==
    /\ pc = "interrupted"
    /\ Len(upserts) = 1
    /\ PassedToUpsert(Len(upserts)) = 1
    /\ Len(points_buffer) = 1
    /\ success_count = 2

----------------------------------------------------------------------------
\* C16: a coroutine holds a download slot only inside its download call: the
\* free download slots are always the capacity minus the coroutines that are
\* downloading, so none is held by a coroutine that waits for or holds an
\* embedding slot; and with the embedding slots all taken, a created
\* coroutine can still take a free download slot.
C16_DownloadSlotNotHeldForEmbedding ==
    pc \in { "wait", "upload", "progress", "remaining", "returned" } =>
        /\ download_sem + Cardinality(DownloadHolders) = concurrent_downloads
        /\ \A idx \in Items :
              ( /\ pc = "wait"
                /\ st[idx] = "created"
                /\ embedding_sem = 0
                /\ Cardinality(DownloadHolders) < concurrent_downloads )
              => ENABLED AcquireDownload(idx)

\* C16 witness: every embedding slot is taken, a second coroutine waits for
\* one with its download done, and a third has entered its download.
C16_Witness ==
    /\ pc = "wait"
    /\ concurrent_embeddings >= 1
    /\ embedding_sem = 0
    /\ EmbeddingHolders # {}
    /\ \E idx \in Items : st[idx] = "downloaded"
    /\ DownloadHolders # {}

----------------------------------------------------------------------------
\* C17: each coroutine calls download_and_encode at most once, and is inside
\* that call exactly while it holds a download slot; it calls generate at
\* most once, only with a data URI from its own download, and is inside that
\* call exactly while it holds an embedding slot; after a failed download it
\* returns None without an embedding request; it returns a point only when
\* generate returned a vector.
C17_StagesInOrderOnce ==
    \A idx \in Items :
        /\ calls[idx].dl <= 1
        /\ calls[idx].em <= 1
        /\ (calls[idx].dl = 1 /\ calls[idx].payload = "") <=> st[idx] = "downloading"
        /\ (calls[idx].em = 1 /\ calls[idx].vector = "") <=> st[idx] = "embedding"
        /\ st[idx] \in { "downloaded", "embedding" } => calls[idx].payload = "data_uri"
        /\ calls[idx].em = 1 => calls[idx].payload = "data_uri"
        /\ calls[idx].payload = "None" =>
              /\ calls[idx].em = 0
              /\ st[idx] = "returned"
              /\ result[idx] = << >>
        /\ result[idx] # << >> => calls[idx].vector = "embedding"

\* C17 witness: a returned run in which one download failed, one embedding
\* request failed after a good download, and one row went through both.
C17_Witness ==
    /\ pc = "returned"
    /\ \E idx \in Items : calls[idx].payload = "None"
    /\ \E idx \in Items : calls[idx].vector = "None"
    /\ \E idx \in Items : calls[idx].vector = "embedding"

----------------------------------------------------------------------------
\* C18: a coroutine that leaves a stage call gives the slot back, whatever
\* the call returned, so the slots held are always those of the coroutines
\* inside a call, and when process_csv returns every slot of both semaphores
\* is free.
C18_SlotsReleased ==
    /\ [](pc = "returned" =>
            /\ download_sem = concurrent_downloads
            /\ embedding_sem = concurrent_embeddings)
    /\ [](pc \in { "wait", "upload", "progress", "remaining" } =>
            embedding_sem + Cardinality(EmbeddingHolders) = concurrent_embeddings)
    /\ [][\A idx \in DOMAIN st :
            /\ (st[idx] = "downloading" /\ st'[idx] # "downloading")
                  => download_sem' = download_sem + 1
            /\ (st[idx] = "embedding" /\ st'[idx] # "embedding")
                  => embedding_sem' = embedding_sem + 1]_vars

\* C18 witness: a returned run with one slot per stage, through which a
\* failed download, a failed embedding request and a success have passed.
C18_Witness ==
    /\ pc = "returned"
    /\ concurrent_downloads = 1
    /\ concurrent_embeddings = 1
    /\ download_sem = 1
    /\ embedding_sem = 1
    /\ FailedDownload # {}
    /\ FailedEmbedding # {}
    /\ Succeeded # {}

----------------------------------------------------------------------------
\* A step in which upsert_points is called.
UpsertNow == Len(upserts') = Len(upserts) + 1

\* C19: a point is counted in success_count when the loop takes it, before
\* the batch that holds it is passed to upsert_points: every point in the
\* buffer or in a batch is already counted, success_count is the number of
\* points buffered or passed so far whatever upsert_points returned, and a
\* call of upsert_points never changes it.  So at the end success_count may
\* be more than the points of the batches that upsert_points accepted.
C19_CountedBeforeUpsert ==
    /\ [](/\ \A p \in 1..Len(points_buffer) : counted[points_buffer[p]].s = 1
          /\ \A j \in 1..Len(upserts) :
                \A p \in 1..Len(upserts[j].points) :
                    counted[upserts[j].points[p]].s = 1
          /\ pc # "returned" =>
                success_count = PassedToUpsert(Len(upserts)) + Len(points_buffer)
          /\ pc = "returned" => success_count = PassedToUpsert(Len(upserts))
          /\ UpsertedOk(Len(upserts)) <= success_count)
    /\ [][UpsertNow => success_count' = success_count]_vars

\* C19 witness: a returned run with three successes of which upsert_points
\* accepted one: a batch was refused and a batch was accepted.
C19_Witness ==
    /\ pc = "returned"
    /\ success_count = 3
    /\ UpsertedOk(Len(upserts)) = 1
    /\ \E j \in 1..Len(upserts) : upserts[j].ok
    /\ \E j \in 1..Len(upserts) : ~ upserts[j].ok

----------------------------------------------------------------------------
\* The upload of what is left in the buffer after the loop (pipeline.py:192).
FinalUploadNow == pc = "remaining" /\ UpsertNow

\* C20: the upload of the remaining points happens after the loop only, when
\* every coroutine has returned and every result has been taken; it passes
\* the whole buffer, of 1 to batch_size - 1 points; process_csv returns right
\* after it and calls upsert_points no more, so it happens at most once and
\* is the last call.
C20_FinalUploadOnceAtEnd ==
    /\ [](pc = "remaining" =>
            /\ completed = Len(tasks)
            /\ done_queue = << >>
            /\ \A idx \in Items : st[idx] = "returned")
    /\ [][FinalUploadNow =>
            /\ Len(points_buffer) >= 1
            /\ Len(points_buffer) <= batch_size - 1
            /\ upserts'[Len(upserts')].points = points_buffer
            /\ pc' = "returned"]_vars
    /\ [][pc = "returned" => upserts' = upserts]_vars

\* C20 witness: a returned run of three rows with batch_size = 2 whose only
\* upsert_points call was the final one, with the one point there was.
C20_Witness ==
    /\ pc = "returned"
    /\ batch_size = 2
    /\ total = 3
    /\ Len(tasks) = 3
    /\ Len(upserts) = 1
    /\ upserts[1].points = points_buffer
    /\ Len(points_buffer) = 1

----------------------------------------------------------------------------
\* The points passed to upsert_points in the first n calls, in order; the
\* points handed to the buffer so far, in order (what is left in the buffer
\* at the return has been passed already, or the buffer is empty).
RECURSIVE AllUpserted(_)
AllUpserted(n) ==
    IF n = 0 THEN << >> ELSE AllUpserted(n - 1) \o upserts[n].points

Handed ==
    IF pc = "returned" /\ RemainingToUpload(points_buffer)
    THEN AllUpserted(Len(upserts))
    ELSE AllUpserted(Len(upserts)) \o points_buffer

\* The coroutines the loop has taken so far if it takes them as they end, and
\* the ids of the points among their results, in that order.
TakenInFinishOrder == SubSeq(finish_order, 1, completed)

PointsInFinishOrder ==
    LET good == SelectSeq(TakenInFinishOrder, LAMBDA idx : result[idx] # << >>)
    IN  [ p \in 1..Len(good) |-> PointId(good[p]) ]

\* C21: every coroutine is created before the loop takes a result, and the
\* loop takes the results in the order the coroutines ended, not in row
\* order: at any moment the rows counted are the first `completed` that
\* ended, and the points handed to the buffer, batch after batch and inside
\* each batch, are in the order their coroutines ended.
C21_DrainedInCompletionOrder ==
    /\ pc = "call" => (completed = 0 /\ finish_order = << >>)
    /\ pc # "call" =>
          /\ Range(tasks) = { idx \in Range(df) : Schedules(idx) }
          /\ Items = Range(tasks)
          /\ completed <= Len(finish_order)
          /\ LET taken == Range(TakenInFinishOrder)
             IN  \A idx \in Items :
                     counted[idx].s + counted[idx].f = 1 <=> idx \in taken
          /\ Handed = PointsInFinishOrder

\* C21 witness: the first batch holds the point of row 2 before that of
\* row 0: row 2 ended first.
C21_Witness ==
    /\ pc = "returned"
    /\ Len(upserts) >= 1
    /\ upserts[1].points = << 2, 0 >>

----------------------------------------------------------------------------
\* C22: which points share a batch is decided by the order in which the
\* coroutines ended: batch j is the j-th run of batch_size points (fewer in
\* the last) of the points in that order.  So runs over the same rows with
\* the same settings differ in their batches when the order differs, and a
\* batch can hold rows that are not neighbours while the row between them is
\* in another batch.
C22_BatchesFollowCompletionOrder ==
    \A j \in 1..Len(upserts) :
        LET first == (j - 1) * batch_size + 1
        IN  upserts[j].points =
                SubSeq(PointsInFinishOrder, first,
                       first + Len(upserts[j].points) - 1)

\* C22 witness: three rows that all succeed, batch_size = 2: rows 0 and 2 in
\* the first batch, row 1 alone in the second.  (With the coroutines ending
\* in row order the same run has the batches << 0, 1 >> and << 2 >>.)
C22_Witness ==
    /\ pc = "returned"
    /\ batch_size = 2
    /\ Len(upserts) = 2
    /\ Range(upserts[1].points) = { 0, 2 }
    /\ upserts[2].points = << 1 >>

\* The same run with the coroutines ending in row order.
C22_InRowOrder ==
    /\ pc = "returned"
    /\ batch_size = 2
    /\ Len(upserts) = 2
    /\ upserts[1].points = << 0, 1 >>
    /\ upserts[2].points = << 2 >>

----------------------------------------------------------------------------
\* The selected rows that got no coroutine.
Unscheduled == { idx \in Range(df) : ~ Schedules(idx) }

\* C23 as stated: in every progress line the completed value is
\* success_count + failure_count of that moment and total is the number of
\* selected rows; the estimate is "calculating..." for completed = 0 and
\* (elapsed / completed) * (total - completed) otherwise.
C23_ProgressCompletedIsCounted ==
    shown # << >> =>
        /\ shown.completed = shown.success + shown.failure
        /\ shown.total = Len(df)
        /\ shown.eta = IF shown.completed = 0 THEN << "calculating..." >>
                       ELSE << "elapsed", shown.completed,
                               shown.total - shown.completed >>

\* C23 as the code has it: completed counts the coroutines taken by the
\* loop, so it is short of success_count + failure_count by the rows that
\* got no coroutine; the loop never prints with completed = 0.
C23_ProgressCompletedIsTaken ==
    shown # << >> =>
        /\ shown.completed = shown.success + shown.failure - Cardinality(Unscheduled)
        /\ shown.completed > 0
        /\ shown.total = Len(df)
        /\ shown.eta = << "elapsed", shown.completed,
                          shown.total - shown.completed >>

----------------------------------------------------------------------------
\* The step in which the loop prints a progress line.
PrintNow == pc = "progress" /\ ShouldPrint(completed, total)

\* C24: printing the progress line changes nothing but the line: both
\* counters, the buffer, both semaphores, every coroutine's position and
\* result, the finished coroutines waiting to be taken and the batches passed
\* so far are as before, and no coroutine runs in between (the loop goes
\* straight on to its next await or out of the loop).
C24_PrintIsObservational ==
    [][PrintNow =>
        /\ shown' = _print_progress(completed, total)
        /\ pc' \in { "wait", "remaining" }
        /\ UNCHANGED << success_count, failure_count, completed, points_buffer,
                        download_sem, embedding_sem, st, result, done_queue,
                        finish_order, upserts >>]_vars

\* C24 witness: a line was printed with a success and a failure on it while
\* a point was in the buffer, and all of it is still there after the line.
C24_Witness ==
    /\ pc = "remaining"
    /\ shown # << >>
    /\ shown.success = success_count
    /\ shown.failure = failure_count
    /\ success_count >= 1
    /\ failure_count >= 1
    /\ points_buffer # << >>

----------------------------------------------------------------------------
\* C25: the counters and the buffer change in steps of process_csv only,
\* never in a step of a coroutine, and between taking a result and the next
\* await (counting, appending, the upload, the progress line) no coroutine
\* takes a step.
C25_LoopAloneMutates ==
    /\ [][(\/ success_count' # success_count
           \/ failure_count' # failure_count
           \/ completed' # completed
           \/ points_buffer' # points_buffer)
          => /\ st' = st \/ pc = "call"
             /\ result' = result \/ pc = "call"
             /\ finish_order' = finish_order \/ pc = "call"
             /\ pc' # pc]_vars
    /\ [][(pc = "upload" \/ pc = "progress") =>
            /\ UNCHANGED << st, result, finish_order, done_queue, calls >>
            /\ UNCHANGED << download_sem, embedding_sem >>]_vars

\* C25 witness: the loop is between taking a point and its next await, with
\* the point in the buffer, while a coroutine could enter its download.
C25_Witness ==
    /\ pc = "upload"
    /\ points_buffer # << >>
    /\ ~ Locked(download_sem)
    /\ \E idx \in Items : st[idx] = "created"

----------------------------------------------------------------------------
\* C26: whenever the loop waits for the next result the buffer holds fewer
\* than batch_size points, and so it does after the upload check of every
\* pass: a buffer that has reached batch_size is passed on and emptied in
\* the pass that filled it.
C26_BufferBelowBatchSizeAtAwait ==
    (batch_size >= 1 /\ pc \in { "wait", "progress", "remaining" }) =>
        Len(points_buffer) < batch_size

\* C26 witness: the loop waits for the third result with an empty buffer:
\* the second point filled the buffer of batch_size = 2, which was passed on
\* and emptied in that pass.
C26_Witness ==
    /\ pc = "wait"
    /\ batch_size = 2
    /\ completed = 2
    /\ Len(upserts) = 1
    /\ Len(upserts[1].points) = 2
    /\ points_buffer = << >>

----------------------------------------------------------------------------
\* The selected rows whose URL is missing, not a string or blank.
BadRows == { idx \in Range(df) : BadUrl(idx) }

\* C27: a selected row without a usable URL is counted once in
\* failure_count when the coroutines are created and gets no coroutine: it
\* takes no slot, makes no stage call, yields no point and is never a result
\* the loop takes, so in a run with such a row completed stays below total.
C27_BadUrlRowNotScheduled ==
    pc # "call" =>
        LET bad == BadRows
            ended == Range(finish_order)
            handed == Range(Handed)
        IN  /\ \A idx \in bad :
                  /\ idx \notin Items
                  /\ idx \notin ended
                  /\ counted[idx] = [ s |-> 0, f |-> 1 ]
                  /\ calls[idx].dl = 0
                  /\ calls[idx].em = 0
                  /\ PointId(idx) \notin handed
            /\ bad \cap Range(tasks) = {}
            /\ failure_count >= Cardinality(bad)
            /\ completed <= total - Cardinality(bad)
            /\ bad # {} => completed < total

\* C27 witness: a returned run of three rows, one of them without a usable
\* URL: two results were taken, one of them a point.
C27_Witness ==
    /\ pc = "returned"
    /\ total = 3
    /\ Cardinality(BadRows) = 1
    /\ completed = 2
    /\ success_count >= 1
    /\ success_count + failure_count = 3

----------------------------------------------------------------------------
\* The rows whose own download and embedding request both succeeded.
OwnSuccess == { idx \in Items : calls[idx].payload = "data_uri"
                                /\ calls[idx].vector = "embedding" }

\* C28: what a run returns, and which ids it passes to upsert_points, is
\* fixed by the selected rows and by what each row's own stage calls gave,
\* not by the order in which the coroutines ran or ended: at the return
\* success_count is the number of rows whose two calls succeeded,
\* failure_count is every other selected row, and the ids passed are those
\* of the successful rows, each once.
C28_ResultIndependentOfOrder ==
    pc = "returned" =>
        /\ success_count = Cardinality(OwnSuccess)
        /\ failure_count = total - Cardinality(OwnSuccess)
        /\ Range(AllUpserted(Len(upserts))) = { PointId(idx) : idx \in OwnSuccess }
        /\ Len(AllUpserted(Len(upserts))) = Cardinality(OwnSuccess)

\* C28 witness: a returned run in which the coroutines ended in the reverse
\* of row order, with a failure among them before the last success.
C28_Witness ==
    /\ pc = "returned"
    /\ finish_order = << 2, 1, 0 >>
    /\ OwnSuccess = { 0, 2 }

----------------------------------------------------------------------------
\* config.py:77-86, Config.validate: the API settings and embedding_dim are
\* taken as set; of the values of a run it tests batch_size alone, and
\* neither concurrent_downloads nor concurrent_embeddings.
validate == batch_size >= 1

\* C29 as stated: with a pool of capacity 0, a run over at least one row
\* with a usable URL never returns.
C29_ZeroPoolNeverReturns ==
    (validate /\ Len(tasks) >= 1
        /\ (concurrent_downloads = 0 \/ concurrent_embeddings = 0))
    => pc # "returned"

\* C29 as the code has it: a configuration with a pool of capacity 0 passes
\* validate; with no download slot no coroutine ever leaves its first line
\* and a run with a coroutine never returns; with no embedding slot a
\* coroutine whose download gave a data URI waits for ever and the run never
\* returns, but a run in which every download fails meets no embedding
\* semaphore and does return.
C29_ZeroPoolBlocksWhoReachesIt ==
    /\ validate
    /\ (concurrent_downloads = 0 /\ Len(tasks) >= 1) =>
          /\ pc # "returned"
          /\ \A idx \in Items : st[idx] = "created"
    /\ concurrent_embeddings = 0 =>
          \A idx \in Items :
              calls[idx].payload = "data_uri" =>
                  /\ st[idx] = "downloaded"
                  /\ pc # "returned"

\* C29 witness: no embedding slot; one coroutine waits for one with its
\* download done while the loop has taken the None of a failed download.
C29_Witness ==
    /\ validate
    /\ concurrent_embeddings = 0
    /\ concurrent_downloads >= 1
    /\ pc = "wait"
    /\ completed >= 1
    /\ done_queue = << >>
    /\ \E idx \in Items : st[idx] = "downloaded"
    /\ \A idx \in Items : st[idx] \in { "downloaded", "returned" }

====
